---------------------------- MODULE Spec2Model ----------------------------
(***************************************************************************)
(* Model of src/python.py: a Streamlit script that is re-executed from top *)
(* to bottom on every user interaction.  The state that survives a run is  *)
(* st.session_state (messages, financial_data_context) and the widget      *)
(* state (the uploaded file).  One action = one complete run of the script *)
(* triggered by one interaction.                                           *)
(*                                                                         *)
(* Text is modelled as a sequence of chunks (TLA+ strings), so that        *)
(* concatenation is \o and str.startswith is a prefix test on chunks.      *)
(* The Vietnamese literals of the source are written without diacritics.   *)
(* Numbers produced by a division are exact rationals [num, den, e9]       *)
(* standing for (num / den) * 10^(9 * e9); e9 = 1 records a division by    *)
(* the 1e-9 substitute of a zero divisor.                                  *)
(***************************************************************************)
EXTENDS Integers, Sequences, FiniteSets, TLC

VARIABLES
    messages,                   \* st.session_state.messages
    financial_data_context,     \* st.session_state.financial_data_context
    uploaded_file,              \* value of the st.file_uploader widget
    api_key,                    \* st.secrets.get("GEMINI_API_KEY") as read by the latest run
    df_processed,               \* enriched table of the latest run, None if none was produced
    thanh_toan_hien_hanh_N,     \* current ratio, current period (latest run)
    thanh_toan_hien_hanh_N_1,   \* current ratio, prior period (latest run)
    delta,                      \* difference of the two ratios (latest run)
    raised,                     \* exception caught by the file-processing handlers in the latest run
    prompt,                     \* value returned by st.chat_input in the latest run
    clicked,                    \* value returned by st.button in the latest run
    llm,                        \* outcome of the language-model call of the latest run
    full_response,              \* value returned by get_chat_response / get_ai_analysis in the latest run
    request                     \* outbound AI request built by the latest run

vars == <<messages, financial_data_context, uploaded_file, api_key, df_processed,
          thanh_toan_hien_hanh_N, thanh_toan_hien_hanh_N_1, delta, raised,
          prompt, clicked, llm, full_response, request>>

---------------------------------------------------------------------------
(* Bounds of the model *)

\* longest chat history explored
MaxMessages == 5
\* largest cell value of the tables drawn for the ratio engine
MaxVal == 1

---------------------------------------------------------------------------
(* Python values *)

\* Python's None (no text, table or file of the model is empty, so the empty
\* tuple is distinct from every other value a variable holds)
None == <<>>

\* the initial value "N/A" of the three ratio variables
NotAvailable == [na |-> TRUE]

\* str.startswith on chunked text
StartsWith(s, p) == Len(s) >= Len(p) /\ SubSeq(s, 1, Len(p)) = p

RECURSIVE GCD(_, _)
GCD(a, b) == IF b = 0 THEN a ELSE GCD(b, a % b)

Abs(a) == IF a < 0 THEN -a ELSE a

\* the exact value of a / b for b # 0, in lowest terms with a positive denominator
Quotient(a, b) ==
    LET g == GCD(Abs(a), Abs(b))
        s == IF b < 0 THEN -1 ELSE 1
    IN  [num |-> (s * a) \div g, den |-> (s * b) \div g, e9 |-> 0]

\* a / 1e-9: the value a * 10^9
QuotientEps(a) == [num |-> a, den |-> 1, e9 |-> IF a = 0 THEN 0 ELSE 1]

\* x - y on two plain quotients (e9 = 0)
Minus(x, y) == Quotient(x.num * y.den - y.num * x.den, x.den * y.den)

\* x * 100
Times100(x) ==
    LET q == Quotient(x.num * 100, x.den)
    IN  [num |-> q.num, den |-> q.den, e9 |-> x.e9]

---------------------------------------------------------------------------
(* Uploaded files: a spreadsheet is [readable, columns, rows]; a row is    *)
(* [label, prior, current]; a label is a sequence of words; a cell is a    *)
(* number or non-numeric text.                                             *)

Num(n) == [numeric |-> TRUE, value |-> n]
NonNumeric == [numeric |-> FALSE, value |-> 0]

\* case folding of the words that occur in labels (str.contains(case=False))
Fold(w) ==
    CASE w = "Tong" -> "TONG"
      [] w = "cong" -> "CONG"
      [] w = "Tai"  -> "TAI"
      [] w = "tai"  -> "TAI"
      [] w = "san"  -> "SAN"
      [] w = "No"   -> "NO"
      [] w = "ngan" -> "NGAN"
      [] w = "han"  -> "HAN"
      [] OTHER      -> w

\* Series.str.contains(pat, case=False, na=False) on one label
Contains(label, pat) ==
    \E i \in 1..(Len(label) - Len(pat) + 1) :
        \A j \in 1..Len(pat) : Fold(label[i + j - 1]) = Fold(pat[j])

TONG_CONG_TAI_SAN == <<"TONG", "CONG", "TAI", "SAN">>
TAI_SAN_NGAN_HAN  == <<"TAI", "SAN", "NGAN", "HAN">>
NO_NGAN_HAN       == <<"NO", "NGAN", "HAN">>

\* df[df['Chi tieu'].str.contains(pat, case=False, na=False)]
Matching(df, pat) == SelectSeq(df, LAMBDA r : Contains(r.ChiTieu, pat))

---------------------------------------------------------------------------
(* process_financial_data (lines 15-46) *)

\* pd.to_numeric(errors='coerce').fillna(0) on one cell
to_numeric(cell) == IF cell.numeric THEN cell.value ELSE 0

\* a zero divisor replaced by 1 instead of 1e-9
Divide_by_one(a, b) == IF b = 0 THEN Quotient(a, 1) ELSE Quotient(a, b)

\* a / b.replace(0, 1e-9), and a / (b if b != 0 else 1e-9)
Divide(a, b) == IF b = 0 THEN QuotientEps(a) ELSE Quotient(a, b)

ValueError(msg) == [type |-> "ValueError", msg |-> msg]
Exception(msg)  == [type |-> "Exception", msg |-> msg]
NoException     == [type |-> "none", msg |-> <<>>]

\* lines 20-27: numeric columns and the growth column
numeric_cols(df) ==
    [i \in 1..Len(df) |->
        LET truoc == to_numeric(df[i].prior)
            sau   == to_numeric(df[i].current)
        IN  [ChiTieu |-> df[i].label, NamTruoc |-> truoc, NamSau |-> sau,
             TocDoTangTruong |-> Times100(Divide(sau - truoc, truoc))]]

\* line 30
tong_tai_san_row(df) == Matching(numeric_cols(df), TONG_CONG_TAI_SAN)

\* process_financial_data without the emptiness test of line 32: .iloc[0] on
\* the empty selection raises an IndexError instead of the ValueError
process_financial_data_unchecked(df) ==
    LET g   == numeric_cols(df)
        row == tong_tai_san_row(df)
    IN  IF row = <<>>
        THEN [ok |-> FALSE,
              exc |-> Exception(<<"single positional indexer is out-of-bounds">>)]
        ELSE [ok |-> TRUE,
              df |-> [i \in 1..Len(g) |->
                  [ChiTieu |-> g[i].ChiTieu,
                   NamTruoc |-> g[i].NamTruoc,
                   NamSau |-> g[i].NamSau,
                   TocDoTangTruong |-> g[i].TocDoTangTruong,
                   TyTrongNamTruoc |-> Times100(Divide(g[i].NamTruoc, row[1].NamTruoc)),
                   TyTrongNamSau |-> Times100(Divide(g[i].NamSau, row[1].NamSau))]]]

\* process_financial_data taking its divisors from the last matching row
\* (.iloc[-1]) instead of the first
process_financial_data_last(df) ==
    LET g   == numeric_cols(df)
        row == tong_tai_san_row(df)
    IN  IF row = <<>>
        THEN [ok |-> FALSE,
              exc |-> ValueError(<<"Khong tim thay chi tieu 'TONG CONG TAI SAN'.">>)]
        ELSE [ok |-> TRUE,
              df |-> [i \in 1..Len(g) |->
                  [ChiTieu |-> g[i].ChiTieu,
                   NamTruoc |-> g[i].NamTruoc,
                   NamSau |-> g[i].NamSau,
                   TocDoTangTruong |-> g[i].TocDoTangTruong,
                   TyTrongNamTruoc |-> Times100(Divide(g[i].NamTruoc, row[Len(row)].NamTruoc)),
                   TyTrongNamSau |-> Times100(Divide(g[i].NamSau, row[Len(row)].NamSau))]]]

\* the value returned, [ok |-> TRUE, df |-> table], or the exception raised
process_financial_data(df) ==
    LET g   == numeric_cols(df)
        row == tong_tai_san_row(df)
    IN  IF row = <<>>
        THEN [ok |-> FALSE,
              exc |-> ValueError(<<"Khong tim thay chi tieu 'TONG CONG TAI SAN'.">>)]
        ELSE LET tong_tai_san_N_1 == row[1].NamTruoc
                 tong_tai_san_N   == row[1].NamSau
             IN  [ok |-> TRUE,
                  df |-> [i \in 1..Len(g) |->
                      [ChiTieu |-> g[i].ChiTieu,
                       NamTruoc |-> g[i].NamTruoc,
                       NamSau |-> g[i].NamSau,
                       TocDoTangTruong |-> g[i].TocDoTangTruong,
                       TyTrongNamTruoc |-> Times100(Divide(g[i].NamTruoc, tong_tai_san_N_1)),
                       TyTrongNamSau |-> Times100(Divide(g[i].NamSau, tong_tai_san_N))]]]

---------------------------------------------------------------------------
(* The current ratio (lines 169-205) *)

\* lines 170-171 initialising the ratios to 0 instead of "N/A", so that a
\* missing row leaves numbers behind
current_ratio_zero(df) ==
    LET tsnh == Matching(df, TAI_SAN_NGAN_HAN)
        no   == Matching(df, NO_NGAN_HAN)
        zero == Quotient(0, 1)
        na   == [N |-> NotAvailable, N_1 |-> NotAvailable, delta |-> NotAvailable]
    IN  IF tsnh = <<>> \/ no = <<>>
        THEN [N |-> zero, N_1 |-> zero, delta |-> zero]
        ELSE LET no_ngan_han_N   == no[1].NamSau
                 no_ngan_han_N_1 == no[1].NamTruoc
             IN  IF no_ngan_han_N # 0 /\ no_ngan_han_N_1 # 0
                 THEN LET n   == Quotient(tsnh[1].NamSau, no_ngan_han_N)
                          n_1 == Quotient(tsnh[1].NamTruoc, no_ngan_han_N_1)
                      IN  [N |-> n, N_1 |-> n_1, delta |-> Minus(n, n_1)]
                 ELSE na

\* lines 170-187; an IndexError of .iloc[0] leaves the three values at "N/A"
current_ratio(df) ==
    LET tsnh == Matching(df, TAI_SAN_NGAN_HAN)
        no   == Matching(df, NO_NGAN_HAN)
        na   == [N |-> NotAvailable, N_1 |-> NotAvailable, delta |-> NotAvailable]
    IN  IF tsnh = <<>> \/ no = <<>>
        THEN na
        ELSE LET tsnh_n          == tsnh[1].NamSau
                 tsnh_n_1        == tsnh[1].NamTruoc
                 no_ngan_han_N   == no[1].NamSau
                 no_ngan_han_N_1 == no[1].NamTruoc
             IN  IF no_ngan_han_N # 0 /\ no_ngan_han_N_1 # 0
                 THEN LET n   == Quotient(tsnh_n, no_ngan_han_N)
                          n_1 == Quotient(tsnh_n_1, no_ngan_han_N_1)
                      IN  [N |-> n, N_1 |-> n_1, delta |-> Minus(n, n_1)]
                 ELSE na

\* f"{x}"
Str(x) ==
    CASE x = None         -> "None"
      [] x = NotAvailable -> "N/A"
      [] OTHER            -> ToString(x)

\* lines 208-219: the context, three cells of the 'Gia tri' column
data_for_ai(df, ratio) == <<ToString(df), Str(ratio.N_1), Str(ratio.N)>>

---------------------------------------------------------------------------
(* Chat turns and the two AI calls (lines 49-122) *)

Turn(role, content) == [role |-> role, content |-> content]

\* line 127 and line 290
PleaseUpload == <<"Vui long tai file", " Excel", " de bat dau phan tich va tro chuyen.">>
\* line 245
Uploaded == <<"Du lieu da duoc tai len", " thanh cong! Hay dat cau hoi dau tien cua ban.">>

\* the prefixes tested by the three startswith calls (lines 103, 244, 289)
VuiLongTaiFileExcel == <<"Vui long tai file", " Excel">>
VuiLongTaiFile      == <<"Vui long tai file">>
DuLieuDaDuocTaiLen  == <<"Du lieu da duoc tai len">>

\* lines 82-87, the text before and after {context_data}
context_prefix(context_data) ==
    <<"Ban la mot chuyen gia phan tich tai chinh. ... --- DU LIEU TAI CHINH CO SO ---\n">>
    \o (IF context_data = None THEN <<Str(None)>> ELSE context_data)
    \o <<"\n---------------------------\nBay gio, hay tra loi cau hoi sau cua nguoi dung: ">>

\* lines 95-100; the role stays None, written "" here (both are falsy at line 103),
\* for any other role
GeminiRole(role) ==
    CASE role = "user"      -> "user"
      [] role = "assistant" -> "model"
      [] OTHER              -> ""

\* line 103 without the two startswith tests
Kept_unfiltered(message) == GeminiRole(message.role) # ""

\* line 103: the turn is appended to contents
Kept(message) ==
    /\ GeminiRole(message.role) # ""
    /\ ~StartsWith(message.content, VuiLongTaiFileExcel)
    /\ ~StartsWith(message.content, DuLieuDaDuocTaiLen)

Part(role, text) == [role |-> role, text |-> text]

\* line 92 without the [:-1] slice
history_messages_all(msgs) == msgs

\* line 92
history_messages(msgs) == SubSeq(msgs, 1, Len(msgs) - 1)

\* lines 89-110: the contents list handed to generate_content
contents(msgs, p, context_data) ==
    LET kept == SelectSeq(history_messages(msgs), Kept)
    IN  [i \in 1..Len(kept) |-> Part(GeminiRole(kept[i].role), kept[i].content)]
        \o <<Part("user", context_prefix(context_data) \o p)>>

\* outcomes of an AI call: response.text, an APIError of generate_content, another
\* exception of generate_content, or an exception of genai.Client(...)
NoCall == [kind |-> "none", text |-> <<>>]
Outcomes ==
    { [kind |-> "text", text |-> <<"b">>],
      [kind |-> "APIError", text |-> <<"429 RESOURCE_EXHAUSTED">>],
      [kind |-> "Exception", text |-> <<"connection reset">>],
      [kind |-> "ClientException", text |-> <<"invalid client option">>] }

NoRequest == [kind |-> "none", contents |-> <<>>]

\* get_chat_response whose catch-all handler (lines 121-122) returns nothing
get_chat_response_silent(msgs, p, context_data, out) ==
    [request |-> IF out.kind = "ClientException"
                 THEN NoRequest
                 ELSE [kind |-> "chat", contents |-> contents(msgs, p, context_data)],
     text |-> CASE out.kind = "text" -> out.text
                [] out.kind = "APIError" ->
                     <<"Loi API: Vui long kiem tra Khoa API hoac vai tro (roles) trong lich su chat. Chi tiet loi: ">>
                     \o out.text
                [] OTHER -> None]

\* lines 75-122: the request issued (if any) and the string returned
get_chat_response(msgs, p, context_data, out) ==
    [request |-> IF out.kind = "ClientException"
                 THEN NoRequest
                 ELSE [kind |-> "chat", contents |-> contents(msgs, p, context_data)],
     text |-> CASE out.kind = "text" -> out.text
                [] out.kind = "APIError" ->
                     <<"Loi API: Vui long kiem tra Khoa API hoac vai tro (roles) trong lich su chat. Chi tiet loi: ">>
                     \o out.text
                [] OTHER ->
                     <<"Loi khong xac dinh khi chat: ">> \o out.text]

\* lines 49-72 with the latest turn of the session history added to the prompt
get_ai_analysis_with_history(data, out) ==
    [request |-> IF out.kind = "ClientException"
                 THEN NoRequest
                 ELSE [kind |-> "oneshot",
                       contents |-> <<"Ban la mot chuyen gia phan tich tai chinh chuyen nghiep. ... Du lieu tho va chi so:\n">>
                                    \o data \o messages[Len(messages)].content],
     text |-> CASE out.kind = "text" -> out.text
                [] out.kind = "APIError" ->
                     <<"Loi goi Gemini API: Vui long kiem tra Khoa API hoac gioi han su dung. Chi tiet loi: ">>
                     \o out.text
                [] OTHER ->
                     <<"Da xay ra loi khong xac dinh: ">> \o out.text]

\* lines 49-72
get_ai_analysis(data, out) ==
    [request |-> IF out.kind = "ClientException"
                 THEN NoRequest
                 ELSE [kind |-> "oneshot",
                       contents |-> <<"Ban la mot chuyen gia phan tich tai chinh chuyen nghiep. ... Du lieu tho va chi so:\n">>
                                    \o data],
     text |-> CASE out.kind = "text" -> out.text
                [] out.kind = "APIError" ->
                     <<"Loi goi Gemini API: Vui long kiem tra Khoa API hoac gioi han su dung. Chi tiet loi: ">>
                     \o out.text
                [] OTHER ->
                     <<"Da xay ra loi khong xac dinh: ">> \o out.text]

---------------------------------------------------------------------------
(* The uploaded files of a session *)

Row(label, prior, current) == [label |-> label, prior |-> prior, current |-> current]
File(rows) == [readable |-> TRUE, columns |-> 3, rows |-> rows]

LabelTotal == <<"TONG", "CONG", "TAI", "SAN">>
LabelCurrentAssets == <<"A.", "Tai", "san", "ngan", "han">>
LabelCurrentLiabilities == <<"No", "ngan", "han">>

\* a complete statement
FileA == File(<<Row(LabelCurrentAssets, Num(1), Num(2)),
                Row(LabelTotal, Num(2), Num(4)),
                Row(LabelCurrentLiabilities, Num(1), Num(1))>>)
\* another one, with a zero liability and a non-numeric cell
FileB == File(<<Row(LabelTotal, Num(2), NonNumeric),
                Row(LabelCurrentAssets, Num(2), Num(1)),
                Row(LabelCurrentLiabilities, Num(1), Num(0))>>)
\* no Total-Assets row
FileNoTotal == File(<<Row(LabelCurrentAssets, Num(1), Num(2)),
                      Row(LabelCurrentLiabilities, Num(1), Num(1))>>)
\* two columns only
FileTwoColumns == [readable |-> TRUE, columns |-> 2, rows |-> <<>>]
\* not a spreadsheet
FileCorrupt == [readable |-> FALSE, columns |-> 0, rows |-> <<>>]

\* a statement without a current-liabilities row
FileNoLiabilities == File(<<Row(LabelTotal, Num(2), Num(3)),
                            Row(LabelCurrentAssets, Num(1), Num(2))>>)

Files == {FileA, FileB, FileNoLiabilities, FileNoTotal, FileTwoColumns, FileCorrupt}

\* what the user types into st.chat_input
Prompts == { <<"a">>, <<"c">>, <<"Du lieu da duoc tai len", " co dung khong?">>, PleaseUpload }

\* what st.secrets.get("GEMINI_API_KEY") returns
Keys == {None, <<"key">>}

---------------------------------------------------------------------------
(* One run of the script (lines 125-297) *)

\* lines 146-152: the enriched table, or the exception raised on the way
read_and_process(file) ==
    IF ~file.readable
    THEN [ok |-> FALSE, exc |-> Exception(<<"File is not a zip file">>)]
    ELSE IF file.columns # 3
    THEN [ok |-> FALSE,
          exc |-> ValueError(<<"Length mismatch: Expected axis has a different number of elements">>)]
    ELSE process_financial_data(file.rows)

\* lines 277-284: the notice that replaces the history
ErrorNotice(exc) ==
    IF exc.type = "ValueError"
    THEN <<"Loi du lieu. Vui long tai file moi: ">> \o exc.msg
    ELSE <<"Loi xu ly file. Vui long tai file moi: ">> \o exc.msg

\* lines 244-245 without the test: every run on a file starts the history over
bootstrap_reset(msgs) == <<Turn("assistant", Uploaded)>>

\* lines 244-245 clearing the history instead of writing the upload notice
bootstrap_clear(msgs) ==
    IF Len(msgs) = 1 /\ StartsWith(msgs[1].content, VuiLongTaiFile)
    THEN <<>>
    ELSE msgs

\* lines 244-245
bootstrap(msgs) ==
    IF Len(msgs) = 1 /\ StartsWith(msgs[1].content, VuiLongTaiFile)
    THEN <<Turn("assistant", Uploaded)>>
    ELSE msgs

\* lines 286-297 with the chat input of line 297 enabled and handled as at lines
\* 252-254
NoFileRun_chat_enabled ==
    \E p \in Prompts \cup {None} :
        LET shown == IF StartsWith(messages[1].content, DuLieuDaDuocTaiLen)
                     THEN <<Turn("assistant", PleaseUpload)>>
                     ELSE messages
        IN  /\ p # None => Len(shown) < MaxMessages
            /\ messages' = IF p # None THEN Append(shown, Turn("user", p)) ELSE shown
            /\ prompt' = p
            /\ uploaded_file' = None
            /\ api_key' = None
            /\ df_processed' = None
            /\ thanh_toan_hien_hanh_N' = NotAvailable
            /\ thanh_toan_hien_hanh_N_1' = NotAvailable
            /\ delta' = NotAvailable
            /\ raised' = NoException
            /\ clicked' = FALSE
            /\ llm' = NoCall
            /\ full_response' = None
            /\ request' = NoRequest
            /\ UNCHANGED financial_data_context

\* lines 286-297: the run when no file is in the uploader
NoFileRun ==
    /\ messages' = IF StartsWith(messages[1].content, DuLieuDaDuocTaiLen)
                   THEN <<Turn("assistant", PleaseUpload)>>
                   ELSE messages
    /\ uploaded_file' = None
    /\ api_key' = None
    /\ df_processed' = None
    /\ thanh_toan_hien_hanh_N' = NotAvailable
    /\ thanh_toan_hien_hanh_N_1' = NotAvailable
    /\ delta' = NotAvailable
    /\ raised' = NoException
    /\ prompt' = None
    /\ clicked' = FALSE
    /\ llm' = NoCall
    /\ full_response' = None
    /\ request' = NoRequest
    /\ UNCHANGED financial_data_context

\* what a run computes from the file in the uploader before any widget below
\* line 222 is consulted: the table or the exception (lines 145-152), the ratios
\* (lines 169-205) and the context (lines 208-219)
pass(file) ==
    LET res   == read_and_process(file)
        ratio == IF res.ok THEN current_ratio(res.df) ELSE None
    IN  [file |-> file, res |-> res, ratio |-> ratio,
         data |-> IF res.ok THEN data_for_ai(res.df, ratio) ELSE None]

\* the passes of the files of a session
Pass == [f \in Files |-> pass(f)]

\* line 222 guarded like the initialisation of line 129: the context is set
\* only while the session has none
session_context_stale(old, ps) == IF old = None THEN ps.data ELSE old

\* line 222: the value of st.session_state.financial_data_context from there on,
\* which is the one line 267 reads
session_context(old, ps) == ps.data

\* line 273 left out: the answer is displayed but not stored
store_response_dropped(msgs, text) == msgs

\* line 273
store_response(msgs, text) == Append(msgs, Turn("assistant", text))

\* lines 228 and 261 without the test: the calls are made with whatever the
\* secret store returned
has_api_key_unchecked(key) == TRUE

\* `if api_key:` at lines 228 and 261
has_api_key(key) == key # None

\* lines 138-284: the run with ps.file in the uploader, the secret `key`, the button
\* pressed or not, the chat input `p` (None when nothing was submitted) and the
\* outcome `out` of the AI call, if one is made
FileRun(ps, key, button, p, out) ==
    /\ uploaded_file' = ps.file
    /\ api_key' = key
    /\ prompt' = IF ps.res.ok THEN p ELSE None
    /\ clicked' = (ps.res.ok /\ button)
    /\ IF ~ps.res.ok
       THEN /\ messages' = <<Turn("assistant", ErrorNotice(ps.res.exc))>>
            /\ financial_data_context' = None
            /\ df_processed' = None
            /\ thanh_toan_hien_hanh_N' = NotAvailable
            /\ thanh_toan_hien_hanh_N_1' = NotAvailable
            /\ delta' = NotAvailable
            /\ raised' = ps.res.exc
            /\ llm' = NoCall
            /\ full_response' = None
            /\ request' = NoRequest
       ELSE LET shown   == bootstrap(messages)
                asked   == Append(shown, Turn("user", p))
                context == session_context(financial_data_context, ps)
            IN  /\ df_processed' = ps.res.df
                /\ thanh_toan_hien_hanh_N' = ps.ratio.N
                /\ thanh_toan_hien_hanh_N_1' = ps.ratio.N_1
                /\ delta' = ps.ratio.delta
                /\ raised' = NoException
                /\ financial_data_context' = context
                /\ llm' = IF has_api_key(key) /\ (button \/ p # None) THEN out ELSE NoCall
                /\ IF p # None
                   THEN IF has_api_key(key)
                        THEN LET chat == get_chat_response(asked, p, context, out)
                             IN  /\ messages' = store_response(asked, chat.text)
                                 /\ full_response' = chat.text
                                 /\ request' = chat.request
                        ELSE /\ messages' = asked
                             /\ full_response' = None
                             /\ request' = NoRequest
                   ELSE /\ messages' = shown
                        /\ IF button /\ has_api_key(key)
                           THEN LET oneshot == get_ai_analysis(ps.data, out)
                                IN  /\ full_response' = oneshot.text
                                    /\ request' = oneshot.request
                           ELSE /\ full_response' = None
                                /\ request' = NoRequest

\* the widgets below line 152 were rendered by the latest run
Rendered == uploaded_file # None /\ raised = NoException

---------------------------------------------------------------------------
(* The interactions *)

Init ==
    /\ messages = <<Turn("assistant", PleaseUpload)>>
    /\ financial_data_context = None
    /\ uploaded_file = None
    /\ api_key = None
    /\ df_processed = None
    /\ thanh_toan_hien_hanh_N = NotAvailable
    /\ thanh_toan_hien_hanh_N_1 = NotAvailable
    /\ delta = NotAvailable
    /\ raised = NoException
    /\ prompt = None
    /\ clicked = FALSE
    /\ llm = NoCall
    /\ full_response = None
    /\ request = NoRequest

\* the user puts a file into the uploader (replacing the one there, if any)
UploadFile ==
    \E file \in Files, key \in Keys :
        /\ file # uploaded_file
        /\ FileRun(Pass[file], key, FALSE, None, NoCall)

\* the user removes the file from the uploader
RemoveFile ==
    /\ uploaded_file # None
    /\ NoFileRun

\* the script is run again with no widget changed
Rerun ==
    IF uploaded_file = None
    THEN NoFileRun
    ELSE \E key \in Keys : FileRun(Pass[uploaded_file], key, FALSE, None, NoCall)

\* the user presses the analysis button
ClickAnalysis ==
    /\ Rendered
    /\ \E key \in Keys, out \in Outcomes :
           FileRun(Pass[uploaded_file], key, TRUE, None, out)

\* the user submits a chat message
SubmitChat ==
    /\ Rendered
    /\ Len(messages) + 2 <= MaxMessages
    /\ \E key \in Keys, p \in Prompts, out \in Outcomes :
           FileRun(Pass[uploaded_file], key, FALSE, p, out)

Next == UploadFile \/ RemoveFile \/ Rerun \/ ClickAnalysis \/ SubmitChat

Spec == Init /\ [][Next]_vars

---------------------------------------------------------------------------
(* The session of a deployment whose secret store holds the key whenever a *)
(* chat message is submitted                                                *)

\* the user submits a chat message while the key is configured
SubmitChatWithKey ==
    /\ Rendered
    /\ Len(messages) + 2 <= MaxMessages
    /\ \E key \in Keys \ {None}, p \in Prompts, out \in Outcomes :
           FileRun(Pass[uploaded_file], key, FALSE, p, out)

KeyedNext == UploadFile \/ RemoveFile \/ Rerun \/ ClickAnalysis \/ SubmitChatWithKey

SpecKeyed == Init /\ [][KeyedNext]_vars

---------------------------------------------------------------------------
(* The ratio engine on every small table: the session uploads any table  *)
(* that has at most as many rows as there are kinds of label (room for    *)
(* one row of each kind, or for repeated and missing kinds), with cell    *)
(* values up to MaxVal.                                                    *)

EngineLabels == {LabelTotal, LabelCurrentAssets, LabelCurrentLiabilities}
\* a cell holds a number or text that is not one
EngineCells == {Num(v) : v \in 0..MaxVal} \cup {NonNumeric}
EngineRows == {Row(l, a, b) : l \in EngineLabels, a \in EngineCells, b \in EngineCells}
EngineTables == UNION {[1..n -> EngineRows] : n \in 0..Cardinality(EngineLabels)}
EnginePass == [t \in EngineTables |-> pass(File(t))]

\* the first table a session processes
UploadTable ==
    /\ uploaded_file = None
    /\ financial_data_context = None
    /\ \E t \in EngineTables, key \in Keys :
           FileRun(EnginePass[t], key, FALSE, None, NoCall)

EngineNext == UploadTable \/ RemoveFile

SpecEngine == Init /\ [][EngineNext]_vars

---------------------------------------------------------------------------
(* Properties of the outbound chat request *)

ChatIssued == request.kind = "chat"

\* the session history as it was when the latest chat request was built:
\* everything before the pending user turn and the answer appended after it
HistoryAtRequest == SubSeq(messages, 1, Len(messages) - 2)

\* the final turn of a chat request: header, context and question fused
FinalTurn == Part("user", context_prefix(financial_data_context) \o prompt)

IsPlaceholder(text) == text = PleaseUpload \/ text = Uploaded

PlaceholdersIn(msgs) == {i \in DOMAIN msgs : IsPlaceholder(msgs[i].content)}

\* C1: no turn of an outbound chat request is one of the two bootstrap
\* placeholder notices, however many of them the session history holds.
C1_NoPlaceholderSent ==
    ChatIssued =>
        \A i \in DOMAIN request.contents : ~IsPlaceholder(request.contents[i].text)

\* a chat request built from a history that holds two placeholder turns and
\* other turns as well
C1_Witness ==
    /\ ChatIssued
    /\ Cardinality(PlaceholdersIn(HistoryAtRequest)) >= 2
    /\ Len(request.contents) >= 2

RoleMapped(msgs) ==
    [i \in DOMAIN msgs |->
        Part(IF msgs[i].role = "user" THEN "user" ELSE "model", msgs[i].content)]

\* C2 as stated: the outbound sequence is every historical turn, role-mapped
\* and in order, followed by the one combined user turn.
C2_AllHistorySent ==
    ChatIssued => request.contents = RoleMapped(HistoryAtRequest) \o <<FinalTurn>>

PlaceholderPrefixed(text) ==
    \/ StartsWith(text, <<"Vui long tai file", " Excel">>)
    \/ StartsWith(text, <<"Du lieu da duoc tai len">>)

NotPlaceholderPrefixed(message) == ~PlaceholderPrefixed(message.content)

\* C2, amended: the outbound sequence is the role-mapped historical turns whose
\* content does not begin with a placeholder prefix, in their original order,
\* followed by exactly one user turn header + context + prompt; the pending
\* prompt is not sent as a turn of its own.
C2_FilteredHistoryThenFinal ==
    ChatIssued =>
        request.contents =
            RoleMapped(SelectSeq(HistoryAtRequest, NotPlaceholderPrefixed)) \o <<FinalTurn>>

\* history [user a, assistant b] behind the bootstrap notice, and prompt c
C2_Witness ==
    /\ ChatIssued
    /\ prompt = <<"c">>
    /\ Len(HistoryAtRequest) = 3
    /\ request.contents =
           <<Part("user", <<"a">>), Part("model", <<"b">>), FinalTurn>>

\* C3: every outbound chat request is non-empty, ends with a user turn and has
\* no two adjacent turns of the same role.
C3_RolesAlternate ==
    ChatIssued =>
        /\ request.contents # <<>>
        /\ request.contents[Len(request.contents)].role = "user"
        /\ \A i \in 1..(Len(request.contents) - 1) :
               request.contents[i].role # request.contents[i + 1].role

HoldsConversation == \E i \in DOMAIN messages : messages[i].role = "user"

\* C4: a run that finds another file in the uploader than the run before leaves
\* no turn of the earlier conversation in the history (an upload run appends no
\* user turn, so any user turn left is an earlier one).
C4_ResetOnNewFile ==
    [][(uploaded_file' # None /\ uploaded_file' # uploaded_file /\ HoldsConversation)
          => ~HoldsConversation']_vars

---------------------------------------------------------------------------
(* Properties of a processing pass *)

FirstRow(pat) == Matching(df_processed, pat)[1]

IsNumber(x) == x # NotAvailable

\* C5: with both rows present, a zero liability in one period makes only that
\* period's ratio (and delta) unavailable; the other period's ratio is
\* assets / liabilities of that period.
C5_RatioPerPeriod ==
    (/\ df_processed # None
     /\ Matching(df_processed, TAI_SAN_NGAN_HAN) # <<>>
     /\ Matching(df_processed, NO_NGAN_HAN) # <<>>)
    => LET assets == FirstRow(TAI_SAN_NGAN_HAN)
           debt   == FirstRow(NO_NGAN_HAN)
       IN  /\ (debt.NamSau = 0 /\ debt.NamTruoc # 0) =>
                 /\ thanh_toan_hien_hanh_N_1 = Quotient(assets.NamTruoc, debt.NamTruoc)
                 /\ thanh_toan_hien_hanh_N = NotAvailable
                 /\ delta = NotAvailable
           /\ (debt.NamTruoc = 0 /\ debt.NamSau # 0) =>
                 /\ thanh_toan_hien_hanh_N = Quotient(assets.NamSau, debt.NamSau)
                 /\ thanh_toan_hien_hanh_N_1 = NotAvailable
                 /\ delta = NotAvailable

\* the file is a readable three-column sheet without a Total-Assets row
MissingTotal(file) ==
    /\ file # None
    /\ file.readable
    /\ file.columns = 3
    /\ \A i \in DOMAIN file.rows : ~Contains(file.rows[i].label, TONG_CONG_TAI_SAN)

MissingRowNotice ==
    <<"Loi du lieu. Vui long tai file moi: ", "Khong tim thay chi tieu 'TONG CONG TAI SAN'.">>

\* C6: a pass over rows without a Total-Assets row fails with the
\* missing-row error, produces neither table nor context, and leaves the
\* history at the single assistant re-upload notice and the context at None.
C6_MissingTotalResets ==
    MissingTotal(uploaded_file) =>
        /\ raised = ValueError(<<"Khong tim thay chi tieu 'TONG CONG TAI SAN'.">>)
        /\ df_processed = None
        /\ financial_data_context = None
        /\ messages = <<Turn("assistant", MissingRowNotice)>>
        /\ request = NoRequest

\* such a file is in the uploader and the pass over it has run
C6_Witness ==
    /\ MissingTotal(uploaded_file)
    /\ uploaded_file.rows # <<>>
    /\ raised.type = "ValueError"

ChatFailed == prompt # None /\ llm.kind \in {"APIError", "Exception", "ClientException"}

IsDiagnostic(text) ==
    \/ StartsWith(text, <<"Loi API: Vui long kiem tra Khoa API hoac vai tro (roles) trong lich su chat. Chi tiet loi: ">>)
    \/ StartsWith(text, <<"Loi khong xac dinh khi chat: ">>)

\* C7: an exchange whose model call fails leaves the context and every earlier
\* turn as they were, appends exactly the user turn and one assistant turn
\* holding the diagnostic string returned, raises nothing to the processing
\* handlers, and leaves the chat input rendered.
C7_ChatFailureIsLocal ==
    [][ChatFailed' =>
          /\ IsDiagnostic(full_response')
          /\ messages' = messages \o <<Turn("user", prompt'), Turn("assistant", full_response')>>
          /\ financial_data_context' = financial_data_context
          /\ financial_data_context' # None
          /\ raised' = NoException
          /\ Rendered']_vars

\* a failed exchange after an earlier, answered one
C7_Witness ==
    /\ ChatFailed
    /\ Len(messages) >= 5
    /\ messages[3].content = <<"b">>

\* C8: the final turn of every chat request carries the context serialized by
\* the pass over the file that is in the uploader, which is also the cached one.
C8_ContextIsCurrentFile ==
    ChatIssued =>
        /\ uploaded_file # None
        /\ financial_data_context # None
        /\ financial_data_context = Pass[uploaded_file].data
        /\ request.contents[Len(request.contents)] =
               Part("user", context_prefix(Pass[uploaded_file].data) \o prompt)

\* a chat request about a file in a session whose earlier upload failed and
\* cleared the context: the history still starts with that failure's notice
C8_Witness ==
    /\ ChatIssued
    /\ uploaded_file = FileB
    /\ messages[1].content = MissingRowNotice

Hundred == [num |-> 100, den |-> 1, e9 |-> 0]
Zero    == [num |-> 0, den |-> 1, e9 |-> 0]

\* C9 as stated: the first Total-Assets row reads 100% in both periods.
C9_TotalIsHundred ==
    df_processed # None =>
        /\ FirstRow(TONG_CONG_TAI_SAN).TyTrongNamTruoc = Hundred
        /\ FirstRow(TONG_CONG_TAI_SAN).TyTrongNamSau = Hundred

\* C9, amended: the first row whose label contains the Total-Assets text reads
\* 100% in each period where its value is nonzero and 0% in a period where its
\* value is 0, also when further labels contain the text.
C9_TotalIsHundredUnlessZero ==
    df_processed # None =>
        LET total == FirstRow(TONG_CONG_TAI_SAN)
        IN  /\ total.TyTrongNamTruoc = IF total.NamTruoc # 0 THEN Hundred ELSE Zero
            /\ total.TyTrongNamSau = IF total.NamSau # 0 THEN Hundred ELSE Zero

\* two Total-Assets rows with different values, the first with a zero
C9_Witness ==
    /\ df_processed # None
    /\ Len(Matching(df_processed, TONG_CONG_TAI_SAN)) >= 2
    /\ FirstRow(TONG_CONG_TAI_SAN).NamTruoc = 0
    /\ FirstRow(TONG_CONG_TAI_SAN).NamSau # 0
    /\ Matching(df_processed, TONG_CONG_TAI_SAN)[2].NamTruoc # 0

NotPlaceholder(message) == ~IsPlaceholder(message.content)

\* C10: a historical turn is left out of the outbound sequence if and only if
\* its content is one of the two placeholder strings.
C10_OnlyPlaceholdersDropped ==
    ChatIssued =>
        SubSeq(request.contents, 1, Len(request.contents) - 1) =
            RoleMapped(SelectSeq(HistoryAtRequest, NotPlaceholder))

---------------------------------------------------------------------------
(* A ratio row that is missing *)

\* the table on screen has no current-assets row or no current-liabilities row
MissingRatioRow ==
    /\ df_processed # None
    /\ \/ Matching(df_processed, TAI_SAN_NGAN_HAN) = <<>>
       \/ Matching(df_processed, NO_NGAN_HAN) = <<>>

HasLabel(file, pat) == \E i \in DOMAIN file.rows : Contains(file.rows[i].label, pat)

\* the files that are statements with a Total-Assets row but without a
\* current-assets row or without a current-liabilities row
LacksRatioRow ==
    [file \in Files |->
        /\ file.readable
        /\ file.columns = 3
        /\ HasLabel(file, TONG_CONG_TAI_SAN)
        /\ ~HasLabel(file, TAI_SAN_NGAN_HAN) \/ ~HasLabel(file, NO_NGAN_HAN)]

\* the history after a step begins with the history before it, or the lone
\* initial notice gave way to the upload notice
HistoryKept ==
    \/ /\ Len(messages') >= Len(messages)
       /\ SubSeq(messages', 1, Len(messages)) = messages
    \/ /\ messages = <<Turn("assistant", PleaseUpload)>>
       /\ messages' = <<Turn("assistant", Uploaded)>>

\* C11: a run on a statement lacking the current-assets or the
\* current-liabilities row shows its table, leaves both ratios and the delta not
\* available, raises nothing, writes the context of that table with "N/A" for
\* both ratios, keeps the history, renders the chat input, and stores the turn
\* of a chat message submitted to it.
C11_MissingRatioRowIsSoft ==
    [][(uploaded_file' # None /\ LacksRatioRow[uploaded_file']) =>
          /\ df_processed' # None
          /\ thanh_toan_hien_hanh_N' = NotAvailable
          /\ thanh_toan_hien_hanh_N_1' = NotAvailable
          /\ delta' = NotAvailable
          /\ raised' = NoException
          /\ financial_data_context' = <<ToString(df_processed'), "N/A", "N/A">>
          /\ HistoryKept
          /\ Rendered'
          /\ prompt' # None =>
                 \E i \in (Len(messages) + 1)..Len(messages') :
                     messages'[i] = Turn("user", prompt')]_vars

\* a chat exchange held and answered over a table without a liabilities row
C11_Witness ==
    /\ MissingRatioRow
    /\ thanh_toan_hien_hanh_N = NotAvailable
    /\ prompt # None
    /\ request.kind = "chat"
    /\ Len(messages) >= 5

---------------------------------------------------------------------------
(* What a step may do to the history *)

\* turns were appended, or nothing changed
Appended ==
    /\ Len(messages') >= Len(messages)
    /\ SubSeq(messages', 1, Len(messages)) = messages

\* the step ran the script on a file that was not in the uploader before
NewUpload == uploaded_file' # None /\ uploaded_file' # uploaded_file

\* the step ran into a processing error
ProcessingError == raised' # NoException

\* C12 as stated: a step that is neither a new upload nor a processing error
\* only appends to the history.
C12_AppendOnly == [][Appended \/ NewUpload \/ ProcessingError]_vars

\* the history became the error notice of the exception raised
ErrorReset ==
    /\ ProcessingError
    /\ messages' = <<Turn("assistant", ErrorNotice(raised'))>>

\* the lone initial notice gave way to the upload notice on a new upload
UploadReset ==
    /\ NewUpload
    /\ raised' = NoException
    /\ messages = <<Turn("assistant", PleaseUpload)>>
    /\ messages' = <<Turn("assistant", Uploaded)>>

\* the file was removed while the history began with the upload notice, and
\* the history became the lone initial notice
RemovalReset ==
    /\ uploaded_file # None
    /\ uploaded_file' = None
    /\ StartsWith(messages[1].content, DuLieuDaDuocTaiLen)
    /\ messages' = <<Turn("assistant", PleaseUpload)>>

\* C12, amended: a step only appends to the history, unless it is a processing
\* error (history := the error notice), a new upload that finds the lone initial
\* notice (history := the upload notice), or the removal of the file from under
\* a history that begins with the upload notice (history := the initial notice).
C12_AppendOnlyUnlessReset ==
    [][Appended \/ ErrorReset \/ UploadReset \/ RemovalReset]_vars

\* the file was removed from under a conversation, which is gone
C12_Witness ==
    /\ uploaded_file = None
    /\ financial_data_context # None
    /\ messages = <<Turn("assistant", PleaseUpload)>>

---------------------------------------------------------------------------
(* Runs without an API key *)

\* C13: after a run that found no API key no AI request is outstanding, one-shot
\* or chat, and none was attempted; and if the file in the uploader is a valid
\* statement, its enriched table is on screen and the context is the one
\* generated from that table.
C13_NoKeyNoRequest ==
    api_key = None =>
        /\ request = NoRequest
        /\ llm = NoCall
        /\ (uploaded_file # None /\ Pass[uploaded_file].res.ok) =>
               /\ df_processed = Pass[uploaded_file].res.df
               /\ financial_data_context =
                      data_for_ai(df_processed, current_ratio(df_processed))

\* a chat message submitted over a valid file while the key was absent
C13_Witness ==
    /\ api_key = None
    /\ df_processed # None
    /\ prompt # None
    /\ financial_data_context # None

---------------------------------------------------------------------------
(* The chat input without a processed file *)

UserTurns(msgs) == Len(SelectSeq(msgs, LAMBDA m : m.role = "user"))

\* C14: a run that starts with no file loaded or after a failed pass, and any
\* run that ends so, takes no chat input: it has no prompt, adds no user turn to
\* the history and issues no chat request.
C14_NoChatWithoutFile ==
    [][(~Rendered \/ ~Rendered') =>
          /\ prompt' = None
          /\ request'.kind # "chat"
          /\ UserTurns(messages') <= UserTurns(messages)]_vars

\* no file is loaded while a conversation, held over a file uploaded after a
\* failed pass, is still on screen
C14_Witness ==
    /\ uploaded_file = None
    /\ UserTurns(messages) >= 1
    /\ prompt = None

---------------------------------------------------------------------------
(* The growth column *)

\* the number a cell of the uploaded table stands for after coercion
Coerced(cell) == IF cell.numeric THEN cell.value ELSE 0

\* g is the value of (current - prior) / prior * 100, or of
\* (current - prior) / 1e-9 * 100 when prior is 0
IsGrowth(g, prior, current) ==
    IF prior # 0
    THEN /\ g.e9 = 0
         /\ g.den > 0
         /\ g.num * prior = (current - prior) * 100 * g.den
    ELSE /\ g.den = 1
         /\ g.num = current * 100
         /\ g.e9 = (IF current = 0 THEN 0 ELSE 1)

\* C15: every row of the table on screen carries the growth of its two values,
\* non-numeric cells counting as 0: (current - prior) / prior * 100 for a nonzero
\* prior, (current - prior) / 1e-9 * 100 for a zero prior.
C15_GrowthDefined ==
    df_processed # None =>
        /\ Len(df_processed) = Len(uploaded_file.rows)
        /\ \A i \in DOMAIN df_processed :
               IsGrowth(df_processed[i].TocDoTangTruong,
                        Coerced(uploaded_file.rows[i].prior),
                        Coerced(uploaded_file.rows[i].current))

\* a row whose prior cell is text and whose current value is not 0, and a row
\* with a nonzero prior
C15_Witness ==
    /\ df_processed # None
    /\ \E i \in DOMAIN df_processed :
           /\ uploaded_file.rows[i].prior = NonNumeric
           /\ df_processed[i].NamSau # 0
    /\ \E i \in DOMAIN df_processed : df_processed[i].NamTruoc # 0

---------------------------------------------------------------------------
(* The one-shot analysis *)

\* the prompt of line 55 for the table and ratios on screen
AnalysisPrompt ==
    <<"Ban la mot chuyen gia phan tich tai chinh chuyen nghiep. ... Du lieu tho va chi so:\n",
      ToString(df_processed), Str(thanh_toan_hien_hanh_N_1), Str(thanh_toan_hien_hanh_N)>>

\* C16: a run in which the analysis button was pressed leaves the history and
\* the cached context as they were, whatever the outcome of the call, and a
\* request it sends holds the instruction and the table with its ratios only.
C16_AnalysisLeavesChatAlone ==
    [][clicked' =>
          /\ messages' = messages
          /\ financial_data_context' = financial_data_context
          /\ request' # NoRequest =>
                 /\ request'.kind = "oneshot"
                 /\ request'.contents = AnalysisPrompt']_vars

\* an analysis requested under a conversation, the call failing
C16_Witness ==
    /\ clicked
    /\ request.kind = "oneshot"
    /\ llm.kind = "APIError"
    /\ Len(messages) >= 3

---------------------------------------------------------------------------
(* The shape of the stored history *)

\* C17: the history is never empty and its first turn is an assistant turn.
C17_FirstTurnIsAssistant ==
    /\ messages # <<>>
    /\ messages[1].role = "assistant"

\* a conversation whose first turn is the notice of a failed pass
C17_Witness ==
    /\ Len(messages) >= 3
    /\ StartsWith(messages[1].content, <<"Loi du lieu. Vui long tai file moi: ">>)
    /\ messages[2].role = "user"

\* C18: when every chat message is submitted with the key present, the stored
\* history ends with an assistant turn and no two adjacent turns have the same
\* role, each user turn being followed by one assistant turn.
C18_AnsweredAndAlternating ==
    /\ messages[Len(messages)].role = "assistant"
    /\ \A i \in 1..(Len(messages) - 1) : messages[i].role # messages[i + 1].role

\* two exchanges, the second answered by a diagnostic string
C18_Witness ==
    /\ Len(messages) >= 5
    /\ prompt # None
    /\ llm.kind \in {"APIError", "Exception", "ClientException"}
    /\ IsDiagnostic(messages[Len(messages)].content)

=============================================================================
